---- MODULE Spec2Model ----
(***************************************************************************)
(* Model of the two command-line programs of threads-affiliate-bot:        *)
(*   bot/scripts/post_to_threads.py  (the Publisher)                       *)
(*   bot/scripts/log_insights.py     (the Insight Logger)                  *)
(* Each Publisher invocation is a process p; the "ready" sheet row and the *)
(* platform are shared.  Remote calls (spreadsheet, platform) are the      *)
(* atomic steps; their outcomes are nondeterministic.                      *)
(***************************************************************************)
EXTENDS Integers, Sequences, FiniteSets, TLC

\* ---------------------------------------------------------------- bounds
MaxRuns == 2        \* Publisher invocations on the row
MaxSeries == 2      \* samples in a metric's time series

\* ------------------------------------------------------- program constants
NumBlockColumns == 4      \* Block_1_Content .. Block_4_Content
FirstPublishDelay == 30
ReplyPublishDelay == 10
MinArgc == 3

None == 0                 \* Python None / empty cell; identifiers are >= 1
Procs == 1..MaxRuns
RowId == "p1"
OtherId == "p9"
Account == "acct"
Whitespace == {" "}

VARIABLES
    \* the "ready" worksheet
    sheetHeaders, sheetRow,
    \* the platform
    containers, published, nextId,
    \* one Publisher invocation per process
    pc, env, post_data, post_blocks_arg, i, last_post_id, root_post_id,
    container_id, createCalls, publishCalls, statusWrites, gsCalls, slept,
    stdout, exit_code,
    \* the "logs" worksheet
    logsExists, logsRows,
    \* the Insight Logger invocation
    lg_pc, lg_env, http_response, insights, now, data_row, lg_gsCalls, lg_exit

sheetVars == <<sheetHeaders, sheetRow>>
platformVars == <<containers, published, nextId>>
procVars == <<pc, env, post_data, post_blocks_arg, i, last_post_id,
              root_post_id, container_id, createCalls, publishCalls,
              statusWrites, gsCalls, slept, stdout, exit_code>>
logsVars == <<logsExists, logsRows>>
loggerVars == <<lg_pc, lg_env, http_response, insights, now, data_row,
                lg_gsCalls, lg_exit>>
vars == <<sheetVars, platformVars, procVars, logsVars, loggerVars>>

\* ------------------------------------------------------------ text helpers
RECURSIVE LStrip(_)
LStrip(s) ==
    IF s = <<>> THEN <<>>
    ELSE IF Head(s) \in Whitespace THEN LStrip(Tail(s)) ELSE s

RECURSIVE RStrip(_)
RStrip(s) ==
    IF s = <<>> THEN <<>>
    ELSE IF s[Len(s)] \in Whitespace THEN RStrip(SubSeq(s, 1, Len(s) - 1)) ELSE s

\* a bug variant: the cell text is not trimmed
NoStrip(s) == s

\* str.strip()
Strip(s) == RStrip(LStrip(s))

\* [block for block in blocks if block]
RECURSIVE FilterNonEmpty(_)
FilterNonEmpty(bs) ==
    IF bs = <<>> THEN <<>>
    ELSE IF Head(bs) # <<>> THEN <<Head(bs)>> \o FilterNonEmpty(Tail(bs))
         ELSE FilterNonEmpty(Tail(bs))

\* post_blocks_arg of lines 300-304
ExtractBlocks(row) ==
    FilterNonEmpty([k \in 1..NumBlockColumns |-> Strip(row.Block[k])])

\* "\n\n".join(blocks)
RECURSIVE Join(_)
Join(bs) ==
    IF bs = <<>> THEN <<>>
    ELSE IF Len(bs) = 1 THEN bs[1]
         ELSE bs[1] \o <<"\n", "\n">> \o Join(Tail(bs))

\* Python truthiness of an identifier-or-None
Truthy(x) == x # None

\* ----------------------------------------------------------- input spaces
BlockChar == <<"a", "b", "c", "d">>
\* a cell is empty, padded text, or (first two columns) whitespace only
CellValues(k) ==
    {<<>>, <<" ", BlockChar[k], " ">>} \cup (IF k <= 2 THEN {<<" ">>} ELSE {})
Rows == {[Post_ID |-> RowId, Block |-> b, Status |-> "Ready", Threads_Post_ID |-> None] :
            b \in {c \in [1..NumBlockColumns -> UNION {CellValues(k) : k \in 1..NumBlockColumns}] :
                      \A k \in 1..NumBlockColumns : c[k] \in CellValues(k)}}
HeaderOptions ==
    { <<"Post_ID", "Block_1_Content", "Block_2_Content", "Block_3_Content",
        "Block_4_Content", "Status", "Threads_Post_ID">>,
      <<"Post_ID", "Block_1_Content", "Block_2_Content", "Block_3_Content",
        "Block_4_Content", "Status">>,
      <<"Post_ID", "Block_1_Content", "Block_2_Content", "Block_3_Content",
        "Block_4_Content">> }
Argvs == { <<"prog">>, <<"prog", Account>>,
           <<"prog", Account, RowId>>, <<"prog", Account, OtherId>> }
Faults(e) ==
    (IF e.creds_path THEN 0 ELSE 1) + (IF e.sheet_url THEN 0 ELSE 1) +
    (IF Len(e.argv) >= MinArgc THEN 0 ELSE 1) +
    (IF e.token THEN 0 ELSE 1) + (IF e.user_id THEN 0 ELSE 1)
\* the environment and arguments of an invocation: at most one thing missing
Envs == {e \in [creds_path : BOOLEAN, sheet_url : BOOLEAN, argv : Argvs,
                token : BOOLEAN, user_id : BOOLEAN] : Faults(e) <= 1}
NoEnv == [creds_path |-> FALSE, sheet_url |-> FALSE, argv |-> <<"prog">>,
          token |-> FALSE, user_id |-> FALSE]
NoRow == [Post_ID |-> OtherId, Block |-> [k \in 1..NumBlockColumns |-> <<>>],
          Status |-> "", Threads_Post_ID |-> None]
NoSummary == [threads_post_id |-> None, account_name |-> "", full_post_content |-> <<>>]

\* ------------------------------------------------------------------- Init
InitSheet ==
    /\ sheetHeaders \in HeaderOptions
    /\ sheetRow \in Rows

InitPlatform ==
    /\ containers = <<>>
    /\ published = <<>>
    /\ nextId = 1

InitProcs ==
    /\ pc \in {[p \in Procs |-> IF p = 1 THEN "config" ELSE "idle"],
               [p \in Procs |-> "idle"]}
    /\ env = [p \in Procs |-> NoEnv]
    /\ post_data = [p \in Procs |-> NoRow]
    /\ post_blocks_arg = [p \in Procs |-> <<>>]
    /\ i = [p \in Procs |-> 0]
    /\ last_post_id = [p \in Procs |-> None]
    /\ root_post_id = [p \in Procs |-> None]
    /\ container_id = [p \in Procs |-> None]
    /\ createCalls = [p \in Procs |-> <<>>]
    /\ publishCalls = [p \in Procs |-> <<>>]
    /\ statusWrites = [p \in Procs |-> <<>>]
    /\ gsCalls = [p \in Procs |-> 0]
    /\ slept = [p \in Procs |-> <<>>]
    /\ stdout = [p \in Procs |-> NoSummary]
    /\ exit_code = [p \in Procs |-> -1]

\* ---- Insight Logger data
MetricNames == {"views", "likes", "replies"}
\* a time-series sample: {"value": 1, "end_time": ...} or one without "value"
Samples == {[has_value |-> TRUE, value |-> 1], [has_value |-> FALSE, value |-> 0]}
SeriesOfLen(n) == [1..n -> Samples]
Series == UNION {SeriesOfLen(n) : n \in 0..MaxSeries}
\* an element of the response's "data" list; has_values / has_total_value
\* say whether the keys "values" / "total_value" are present
MetricEntries ==
    {m \in [name : MetricNames, has_values : BOOLEAN, values : Series,
            has_total_value : BOOLEAN, total_value : Samples] :
        /\ (~m.has_values => m.values = <<>>)
        /\ (~m.has_total_value => m.total_value = [has_value |-> FALSE, value |-> 0])}
\* the platform reports each requested metric at most once, in the order of
\* the request "views,likes,replies"
OptionalEntry(name) == {<<>>} \cup {<<m>> : m \in {e \in MetricEntries : e.name = name}}
DataLists ==
    {v \o l \o r : v \in OptionalEntry("views"), l \in OptionalEntry("likes"),
                   r \in OptionalEntry("replies")}
\* kind: the request fails (network / HTTP status), the body is not the
\* expected JSON, the JSON has no "data" key, or it has a "data" list
Responses ==
    {[kind |-> k, data |-> <<>>] : k \in {"http_error", "malformed", "no_data"}}
        \cup {[kind |-> "data", data |-> d] : d \in DataLists}
NoResponse == [kind |-> "none", data |-> <<>>]
EmptyDict == [n \in {} |-> 0]
NoInsights == [none |-> TRUE, dict |-> EmptyDict]
Timestamps == {[date_part |-> "2025-01-01", time_part |-> "23:59:59"],
               [date_part |-> "2025-01-02", time_part |-> "00:00:00"]}
NoTime == [date_part |-> "", time_part |-> ""]
\* a spreadsheet cell holding a string or a number
Str(x) == [isnum |-> FALSE, str |-> x, num |-> 0]
Num(x) == [isnum |-> TRUE, str |-> "", num |-> x]
LogHeaders == <<Str("Post_ID"), Str("Account"), Str("Post_Content"), Str("Views"),
                Str("Likes"), Str("Replies"), Str("Date_Posted"), Str("Time_Posted")>>
MediaId == "m1"
Content == "text"
LogArgvs == { <<"prog">>, <<"prog", Account>>, <<"prog", Account, MediaId>>,
              <<"prog", Account, MediaId, Content>> }
MinLogArgc == 4
LogFaults(e) ==
    (IF e.creds_path THEN 0 ELSE 1) + (IF e.sheet_url THEN 0 ELSE 1) +
    (IF Len(e.argv) >= MinLogArgc THEN 0 ELSE 1) + (IF e.token THEN 0 ELSE 1)
LogEnvs == {e \in [creds_path : BOOLEAN, sheet_url : BOOLEAN, argv : LogArgvs,
                   token : BOOLEAN] : LogFaults(e) <= 1}
NoLogEnv == [creds_path |-> FALSE, sheet_url |-> FALSE, argv |-> <<"prog">>,
             token |-> FALSE]

InitLogs ==
    /\ logsExists \in BOOLEAN
    /\ logsRows = IF logsExists THEN <<LogHeaders>> ELSE <<>>

InitLoggerAt(start) ==
    /\ lg_pc = start
    /\ lg_env = NoLogEnv
    /\ http_response = NoResponse
    /\ insights = NoInsights
    /\ now = NoTime
    /\ data_row = <<>>
    /\ lg_gsCalls = 0
    /\ lg_exit = -1

\* the Publisher runs; no Insight Logger
Init ==
    /\ InitSheet /\ InitPlatform /\ InitProcs /\ pc[1] = "config"
    /\ logsExists = FALSE /\ logsRows = <<>>
    /\ InitLoggerAt("off")

\* the Insight Logger runs; no Publisher
InitLog ==
    /\ sheetHeaders = <<"Post_ID">> /\ sheetRow = NoRow
    /\ InitPlatform
    /\ InitProcs /\ pc[1] = "idle"
    /\ InitLogs
    /\ InitLoggerAt("config")

\* sys.exit(code)
Exit(p, code) ==
    /\ pc' = [pc EXCEPT ![p] = "exited"]
    /\ exit_code' = [exit_code EXCEPT ![p] = code]

\* ------------------------------------------------ configuration (21-63, 255-277)
\* a bug variant: the user identifier is not checked
ConfigOkWithoutUserId(e) ==
    /\ e.creds_path
    /\ e.sheet_url
    /\ Len(e.argv) >= MinArgc
    /\ e.token

ConfigOk(e) ==
    /\ e.creds_path
    /\ e.sheet_url
    /\ Len(e.argv) >= MinArgc
    /\ e.token
    /\ e.user_id

CheckConfig(p) ==
    /\ pc[p] = "config"
    /\ \E e \in Envs :
        /\ env' = [env EXCEPT ![p] = e]
        /\ IF ConfigOk(e)
           THEN /\ pc' = [pc EXCEPT ![p] = "auth"]
                /\ UNCHANGED exit_code
           ELSE Exit(p, 1)
    /\ UNCHANGED <<sheetVars, platformVars, post_data, post_blocks_arg, i,
                   last_post_id, root_post_id, container_id, createCalls,
                   publishCalls, statusWrites, gsCalls, slept, stdout>>

\* ------------------------------------------------ spreadsheet access (67-105)
\* get_google_sheet_client, open_google_sheet, get_worksheet: each returns
\* None on failure and the caller exits 1 (lines 280-291)
GetGoogleSheetClient(p) ==
    /\ pc[p] = "auth"
    /\ gsCalls' = [gsCalls EXCEPT ![p] = @ + 1]
    /\ \E ok \in BOOLEAN :
        IF ok THEN pc' = [pc EXCEPT ![p] = "open"] /\ UNCHANGED exit_code
        ELSE Exit(p, 1)
    /\ UNCHANGED <<sheetVars, platformVars, env, post_data, post_blocks_arg, i,
                   last_post_id, root_post_id, container_id, createCalls,
                   publishCalls, statusWrites, slept, stdout>>

OpenGoogleSheet(p) ==
    /\ pc[p] = "open"
    /\ gsCalls' = [gsCalls EXCEPT ![p] = @ + 1]
    /\ \E ok \in BOOLEAN :
        IF ok THEN pc' = [pc EXCEPT ![p] = "worksheet"] /\ UNCHANGED exit_code
        ELSE Exit(p, 1)
    /\ UNCHANGED <<sheetVars, platformVars, env, post_data, post_blocks_arg, i,
                   last_post_id, root_post_id, container_id, createCalls,
                   publishCalls, statusWrites, slept, stdout>>

GetWorksheet(p) ==
    /\ pc[p] = "worksheet"
    /\ gsCalls' = [gsCalls EXCEPT ![p] = @ + 1]
    /\ \E outcome \in {"found", "not_found", "exception"} :
        IF outcome = "found"
        THEN pc' = [pc EXCEPT ![p] = "lookup"] /\ UNCHANGED exit_code
        ELSE Exit(p, 1)
    /\ UNCHANGED <<sheetVars, platformVars, env, post_data, post_blocks_arg, i,
                   last_post_id, root_post_id, container_id, createCalls,
                   publishCalls, statusWrites, slept, stdout>>

\* get_post_by_id: the record whose Post_ID equals post_id, or None
RowMatches(row, post_id) == row.Post_ID = post_id

\* lines 293-318: read the row, extract the blocks
ReadPost(p) ==
    /\ pc[p] = "lookup"
    /\ gsCalls' = [gsCalls EXCEPT ![p] = @ + 1]
    /\ \E outcome \in {"ok", "exception"} :
        IF outcome = "ok" /\ RowMatches(sheetRow, env[p].argv[3])
        THEN /\ post_data' = [post_data EXCEPT ![p] = sheetRow]
             /\ post_blocks_arg' = [post_blocks_arg EXCEPT ![p] = ExtractBlocks(sheetRow)]
             /\ pc' = [pc EXCEPT ![p] =
                        IF ExtractBlocks(sheetRow) = <<>> THEN "no_blocks"
                        ELSE "mark_posting"]
             /\ UNCHANGED exit_code
        ELSE /\ Exit(p, 1)
             /\ UNCHANGED <<post_data, post_blocks_arg>>
    /\ UNCHANGED <<sheetVars, platformVars, env, i, last_post_id, root_post_id,
                   container_id, createCalls, publishCalls, statusWrites,
                   slept, stdout>>

\* ------------------------------------------------ update_post_status (123-152)
Range(f) == {f[x] : x \in DOMAIN f}

\* True iff the update is written: no exception, the Post_ID cell is found
\* and the headers have a Status column
UpdateReturns(row, headers, post_id, outcome) ==
    /\ outcome = "ok"
    /\ RowMatches(row, post_id)
    /\ "Status" \in Range(headers)

\* the row after worksheet.batch_update(updates)
RowAfterUpdate(row, headers, status, threads_post_id) ==
    [row EXCEPT !.Status = status,
                !.Threads_Post_ID =
                    IF Truthy(threads_post_id) /\ "Threads_Post_ID" \in Range(headers)
                    THEN threads_post_id ELSE @]

update_post_status(p, status, threads_post_id) ==
    \E outcome \in {"ok", "exception"} :
        LET post_id == env[p].argv[3]
            ret == UpdateReturns(sheetRow, sheetHeaders, post_id, outcome)
        IN  /\ sheetRow' = IF ret
                           THEN RowAfterUpdate(sheetRow, sheetHeaders, status, threads_post_id)
                           ELSE sheetRow
            /\ statusWrites' = [statusWrites EXCEPT ![p] =
                    Append(@, [status |-> status, threads_post_id |-> threads_post_id,
                               returned |-> ret])]
            /\ gsCalls' = [gsCalls EXCEPT ![p] = @ + 1]
            /\ UNCHANGED sheetHeaders

\* lines 316-321
MarkPosting(p) ==
    /\ pc[p] = "mark_posting"
    /\ update_post_status(p, "Posting", None)
    /\ last_post_id' = [last_post_id EXCEPT ![p] = None]
    /\ root_post_id' = [root_post_id EXCEPT ![p] = None]
    /\ i' = [i EXCEPT ![p] = 0]
    /\ pc' = [pc EXCEPT ![p] = "create"]
    /\ UNCHANGED <<platformVars, env, post_data, post_blocks_arg, container_id,
                   createCalls, publishCalls, slept, stdout, exit_code>>

\* ------------------------------------------------ platform calls (157-249)
\* create_media_container: the container id, or None on an HTTP error or a
\* response without "id"
CreateResult(resp, new_id) == IF resp = "ok" THEN new_id ELSE None

\* a bug variant: every reply targets the root post
reply_to_root(p) == root_post_id[p]

\* line 327: the reply target of the next create call
current_reply_to_id(p) == last_post_id[p]

\* a bug variant: a block whose create call failed is attempted again
CreateRetried(cid) == IF Truthy(cid) THEN "sleep" ELSE "create"

\* lines 344, 368-372: `if container_id:` waits and publishes, else fails
AfterCreate(cid) == IF Truthy(cid) THEN "sleep" ELSE "create_failed"

\* lines 324-344 (and 368-369): one create call of the loop
CreateContainer(p) ==
    /\ pc[p] = "create"
    /\ LET block_content == post_blocks_arg[p][i[p] + 1]
       IN \E resp \in {"ok", "http_error", "no_id"} :
            LET cid == CreateResult(resp, nextId) IN
            /\ createCalls' = [createCalls EXCEPT ![p] =
                    Append(@, [text |-> block_content,
                               reply_to_id |-> current_reply_to_id(p),
                               result |-> cid])]
            /\ container_id' = [container_id EXCEPT ![p] = cid]
            /\ IF resp = "ok"
               THEN /\ containers' = Append(containers,
                            [id |-> nextId, text |-> block_content,
                             reply_to_id |-> current_reply_to_id(p),
                             owner |-> p, open |-> TRUE])
                    /\ nextId' = nextId + 1
               ELSE UNCHANGED <<containers, nextId>>
            /\ pc' = [pc EXCEPT ![p] = AfterCreate(cid)]
    /\ UNCHANGED <<sheetVars, published, env, post_data, post_blocks_arg, i,
                   last_post_id, root_post_id, publishCalls, statusWrites,
                   gsCalls, slept, stdout, exit_code>>

\* a bug variant: every block waits as long as the first
UniformDelay(idx) == FirstPublishDelay

\* lines 347-349
PublishDelay(idx) == IF idx = 0 THEN FirstPublishDelay ELSE ReplyPublishDelay

Sleep(p) ==
    /\ pc[p] = "sleep"
    /\ slept' = [slept EXCEPT ![p] = Append(@, PublishDelay(i[p]))]
    /\ pc' = [pc EXCEPT ![p] = "publish"]
    /\ UNCHANGED <<sheetVars, platformVars, env, post_data, post_blocks_arg, i,
                   last_post_id, root_post_id, container_id, createCalls,
                   publishCalls, statusWrites, gsCalls, stdout, exit_code>>

ContainerIndex(cid) == CHOOSE k \in 1..Len(containers) : containers[k].id = cid

\* publish_media_container: the published id, or None
PublishResult(resp, new_id) == IF resp = "ok" THEN new_id ELSE None

\* a bug variant: the root is overwritten by every published block
RootOverwritten(root, idx, published_post_id) == published_post_id

\* root_post_id after block idx was published (lines 359-360)
RootAfterPublish(root, idx, published_post_id) ==
    IF idx = 0 THEN published_post_id ELSE root

\* a bug variant: the loop stops one block early
LoopStopsEarly(idx, n) ==
    IF idx + 1 < n - 1 THEN "create" ELSE "complete"

\* line 324: after block idx of n, the loop goes on or falls through to 374
AfterPublish(idx, n) ==
    IF idx + 1 < n THEN "create" ELSE "complete"

\* a bug variant: a failed publish call is repeated until it succeeds
PublishRepeated(published_post_id, idx, n) ==
    IF Truthy(published_post_id) THEN AfterPublish(idx, n) ELSE "publish"

\* a bug variant: a failed publish call does not end the run
PublishFailureIgnored(published_post_id, idx, n) == AfterPublish(idx, n)

\* a bug variant: a block whose publish call failed is attempted again
BlockRetried(published_post_id, idx, n) ==
    IF Truthy(published_post_id) THEN AfterPublish(idx, n) ELSE "create"

\* lines 357-367: `if published_post_id:` goes on with the loop, else fails
AfterPublishResult(published_post_id, idx, n) ==
    IF Truthy(published_post_id) THEN AfterPublish(idx, n) ELSE "publish_failed"

\* lines 351-364: one publish call of the loop, and the loop's advance
PublishContainer(p) ==
    /\ pc[p] = "publish"
    /\ \E resp \in {"ok", "http_error", "no_id"} :
        LET published_post_id == PublishResult(resp, nextId)
            k == ContainerIndex(container_id[p])
        IN
        /\ publishCalls' = [publishCalls EXCEPT ![p] =
                Append(@, [creation_id |-> container_id[p],
                           result |-> published_post_id])]
        /\ IF resp = "ok"
           THEN /\ published' = Append(published,
                        [id |-> nextId, text |-> containers[k].text,
                         reply_to_id |-> containers[k].reply_to_id,
                         owner |-> p])
                /\ containers' = [containers EXCEPT ![k].open = FALSE]
                /\ nextId' = nextId + 1
           ELSE UNCHANGED <<containers, published, nextId>>
        /\ pc' = [pc EXCEPT ![p] =
                AfterPublishResult(published_post_id, i[p], Len(post_blocks_arg[p]))]
        /\ IF Truthy(published_post_id)
           THEN /\ last_post_id' = [last_post_id EXCEPT ![p] = published_post_id]
                /\ root_post_id' = [root_post_id EXCEPT ![p] =
                        RootAfterPublish(@, i[p], published_post_id)]
                /\ i' = [i EXCEPT ![p] = @ + 1]
           ELSE UNCHANGED <<last_post_id, root_post_id, i>>
    /\ UNCHANGED <<sheetVars, env, post_data, post_blocks_arg, container_id,
                   createCalls, statusWrites, gsCalls, slept, stdout, exit_code>>

\* lines 307-311, 363-367, 368-372: status "Error", then exit 1
FailWithError(p) ==
    /\ pc[p] \in {"no_blocks", "create_failed", "publish_failed"}
    /\ update_post_status(p, "Error", None)
    /\ Exit(p, 1)
    /\ UNCHANGED <<platformVars, env, post_data, post_blocks_arg, i,
                   last_post_id, root_post_id, container_id, createCalls,
                   publishCalls, slept, stdout>>

\* json.dumps(output_data) of lines 383-388
Summary(p) ==
    [threads_post_id |-> root_post_id[p],
     account_name |-> env[p].argv[2],
     full_post_content |-> Join(post_blocks_arg[p])]

\* lines 374-394
ChainComplete(p) ==
    /\ pc[p] = "complete"
    /\ IF Truthy(root_post_id[p])
       THEN /\ update_post_status(p, "Posted", root_post_id[p])
            /\ stdout' = [stdout EXCEPT ![p] = Summary(p)]
            /\ Exit(p, 0)
       ELSE /\ Exit(p, 1)
            /\ UNCHANGED <<sheetVars, statusWrites, gsCalls, stdout>>
    /\ UNCHANGED <<platformVars, env, post_data, post_blocks_arg, i,
                   last_post_id, root_post_id, container_id, createCalls,
                   publishCalls, slept>>

\* the workflow tool invokes the Publisher again for the row once the
\* previous invocations have exited
Reinvoke(p) ==
    /\ pc[p] = "idle"
    /\ \A q \in Procs : q < p => pc[q] = "exited"
    /\ pc' = [pc EXCEPT ![p] = "config"]
    /\ UNCHANGED <<sheetVars, platformVars, env, post_data, post_blocks_arg, i,
                   last_post_id, root_post_id, container_id, createCalls,
                   publishCalls, statusWrites, gsCalls, slept, stdout, exit_code>>

\* the Publisher touches neither the logs worksheet nor the Insight Logger
PublisherFrame == UNCHANGED <<logsVars, loggerVars>>

Next ==
    \/ \E p \in Procs : CheckConfig(p) /\ PublisherFrame
    \/ \E p \in Procs : GetGoogleSheetClient(p) /\ PublisherFrame
    \/ \E p \in Procs : OpenGoogleSheet(p) /\ PublisherFrame
    \/ \E p \in Procs : GetWorksheet(p) /\ PublisherFrame
    \/ \E p \in Procs : ReadPost(p) /\ PublisherFrame
    \/ \E p \in Procs : MarkPosting(p) /\ PublisherFrame
    \/ \E p \in Procs : CreateContainer(p) /\ PublisherFrame
    \/ \E p \in Procs : Sleep(p) /\ PublisherFrame
    \/ \E p \in Procs : PublishContainer(p) /\ PublisherFrame
    \/ \E p \in Procs : FailWithError(p) /\ PublisherFrame
    \/ \E p \in Procs : ChainComplete(p) /\ PublisherFrame
NextRerun ==
    \/ Next
    \/ \E p \in Procs : Reinvoke(p) /\ PublisherFrame

\* the workflow starts another invocation for the same row, whether or not
\* the earlier ones have ended
Invoke(p) ==
    /\ pc[p] = "idle"
    /\ \A q \in Procs : q < p => pc[q] # "idle"
    /\ pc' = [pc EXCEPT ![p] = "config"]
    /\ UNCHANGED <<sheetVars, platformVars, env, post_data, post_blocks_arg, i,
                   last_post_id, root_post_id, container_id, createCalls,
                   publishCalls, statusWrites, gsCalls, slept, stdout, exit_code>>

\* the overlapping invocations work on a row of at most two blocks
InitConcurrent ==
    /\ Init
    /\ \A c \in 3..NumBlockColumns : sheetRow.Block[c] = <<>>

NextConcurrent ==
    \/ Next
    \/ \E p \in Procs : Invoke(p) /\ PublisherFrame

\* what the process has in place of an exit code when a signal ended it
Killed == -9

\* a bug variant: a handler around the loop takes a run terminated there
\* through the failure branch
CleanupOnTermination(p) ==
    IF pc[p] \in {"create", "sleep", "publish"} THEN "create_failed" ELSE "killed"

\* __main__ installs no signal handler and has no try/finally around the
\* loop: a terminated process runs no further statement
OnTermination(p) == "killed"

\* the process is ended from outside (a workflow timeout, a kill) at any
\* point of its run
Terminate(p) ==
    /\ pc[p] \notin {"idle", "exited", "killed"}
    /\ pc' = [pc EXCEPT ![p] = OnTermination(p)]
    /\ exit_code' = [exit_code EXCEPT ![p] = Killed]
    /\ UNCHANGED <<sheetVars, platformVars, env, post_data, post_blocks_arg, i,
                   last_post_id, root_post_id, container_id, createCalls,
                   publishCalls, statusWrites, gsCalls, slept, stdout>>

NextKill ==
    \/ Next
    \/ \E p \in Procs : Terminate(p) /\ PublisherFrame

\* one Publisher invocation
Spec == Init /\ [][Next]_vars
\* one Publisher invocation whose every call returns and whose every wait
\* ends: the script is a single thread of blocking calls, so the statement
\* it is at is eventually executed
SpecFair == Init /\ [][Next]_vars /\ WF_vars(Next)
\* a sequence of Publisher invocations on the same row
SpecRerun == Init /\ [][NextRerun]_vars
\* Publisher invocations on the same row, in sequence or overlapping
SpecConcurrent == InitConcurrent /\ [][NextConcurrent]_vars
\* one Publisher invocation that may be terminated from outside
SpecKill == Init /\ [][NextKill]_vars

\* =================================================== Insight Logger
\* sys.exit(code) of log_insights.py
LogExit(code) ==
    /\ lg_pc' = "exited"
    /\ lg_exit' = code

\* lines 21-55 and 180-195
LogConfigOk(e) ==
    /\ e.creds_path
    /\ e.sheet_url
    /\ Len(e.argv) >= MinLogArgc
    /\ e.token

LogCheckConfig ==
    /\ lg_pc = "config"
    /\ \E e \in LogEnvs :
        /\ lg_env' = e
        /\ IF LogConfigOk(e) THEN lg_pc' = "fetch" /\ UNCHANGED lg_exit
           ELSE LogExit(1)
    /\ UNCHANGED <<logsVars, http_response, insights, now, data_row, lg_gsCalls>>

\* ------------------------------------------------ get_post_insights (116-171)
\* sample.get("value", 0)
SampleValue(sample) == IF sample.has_value THEN sample.value ELSE 0

\* a bug variant: the first sample instead of the last
FirstValue(values) == SampleValue(values[1])

\* metric_data["values"][-1].get("value", 0)
LastValue(values) == SampleValue(values[Len(values)])

\* sum(item.get("value", 0) for item in metric_data["values"])
RECURSIVE SumValues(_)
SumValues(values) ==
    IF values = <<>> THEN 0 ELSE SampleValue(Head(values)) + SumValues(Tail(values))

\* parsed_insights[name] = v
DictPut(d, name, v) ==
    [n \in DOMAIN d \cup {name} |-> IF n = name THEN v ELSE d[n]]

\* dict.get(name, default)
DictGet(d, name, default) == IF name \in DOMAIN d THEN d[name] ELSE default

\* the body of the loop over insights_data["data"] (lines 148-159)
ParseMetric(parsed, m) ==
    IF m.name = "views" /\ m.has_values /\ m.values # <<>>
    THEN DictPut(parsed, m.name, LastValue(m.values))
    ELSE IF m.name \in {"likes", "replies"} /\ m.has_total_value
    THEN DictPut(parsed, m.name, SampleValue(m.total_value))
    ELSE IF m.name \in {"likes", "replies"} /\ m.has_values /\ m.values # <<>>
    THEN DictPut(parsed, m.name, SumValues(m.values))
    ELSE parsed

RECURSIVE ParseData(_, _)
ParseData(parsed, data) ==
    IF data = <<>> THEN parsed
    ELSE ParseData(ParseMetric(parsed, Head(data)), Tail(data))

\* a bug variant: metrics that were not parsed are returned as zero
get_post_insights_zero_filled(resp) ==
    IF resp.kind \in {"http_error", "malformed"} THEN NoInsights
    ELSE [none |-> FALSE,
          dict |-> [n \in MetricNames |->
                      DictGet(IF resp.kind = "data" THEN ParseData(EmptyDict, resp.data)
                              ELSE EmptyDict, n, 0)]]

\* the returned value: None, or the parsed_insights dict
get_post_insights(resp) ==
    IF resp.kind \in {"http_error", "malformed"} THEN NoInsights
    ELSE [none |-> FALSE,
          dict |-> IF resp.kind = "data" THEN ParseData(EmptyDict, resp.data)
                   ELSE EmptyDict]

\* line 199: the request and the call's return
FetchInsights ==
    /\ lg_pc = "fetch"
    /\ \E resp \in Responses :
        /\ http_response' = resp
        /\ insights' = get_post_insights(resp)
    /\ lg_pc' = "fetched"
    /\ UNCHANGED <<logsVars, lg_env, now, data_row, lg_gsCalls, lg_exit>>

\* a bug variant: "if insights is not None:"
InsightsNotNone(r) == ~r.none

\* "if insights:" -- None and the empty dict are false
InsightsTruthy(r) == ~r.none /\ DOMAIN r.dict # {}

\* lines 207-216
DataRow(e, ins, ts) ==
    << Str(e.argv[3]), Str(e.argv[2]), Str(e.argv[4]),
       Num(DictGet(ins.dict, "views", 0)),
       Num(DictGet(ins.dict, "likes", 0)),
       Num(DictGet(ins.dict, "replies", 0)),
       Str(ts.date_part), Str(ts.time_part) >>

\* lines 201-216 and 236-238; the response body is released
PrepareRow ==
    /\ lg_pc = "fetched"
    /\ http_response' = NoResponse
    /\ IF InsightsTruthy(insights)
       THEN /\ \E ts \in Timestamps :
                /\ now' = ts
                /\ data_row' = DataRow(lg_env, insights, ts)
            /\ lg_pc' = "auth"
            /\ UNCHANGED lg_exit
       ELSE /\ LogExit(1)
            /\ UNCHANGED <<now, data_row>>
    /\ UNCHANGED <<logsVars, lg_env, insights, lg_gsCalls>>

\* lines 219-220, 233-235
LogGetClient ==
    /\ lg_pc = "auth"
    /\ lg_gsCalls' = lg_gsCalls + 1
    /\ \E ok \in BOOLEAN :
        IF ok THEN lg_pc' = "open" /\ UNCHANGED lg_exit ELSE LogExit(1)
    /\ UNCHANGED <<logsVars, lg_env, http_response, insights, now, data_row>>

\* lines 221-222, 230-232
LogOpenSheet ==
    /\ lg_pc = "open"
    /\ lg_gsCalls' = lg_gsCalls + 1
    /\ \E ok \in BOOLEAN :
        IF ok THEN lg_pc' = "worksheet" /\ UNCHANGED lg_exit ELSE LogExit(1)
    /\ UNCHANGED <<logsVars, lg_env, http_response, insights, now, data_row>>

\* get_or_create_worksheet (86-102) and lines 223-224, 227-229.  An
\* exception of add_worksheet or of the header append is raised inside the
\* WorksheetNotFound handler and ends the process with a traceback (exit 1)
GetOrCreateWorksheet ==
    /\ lg_pc = "worksheet"
    /\ lg_gsCalls' = lg_gsCalls + 1
    /\ \E outcome \in {"ok", "exception", "add_failed", "header_failed"} :
        /\ outcome \in {"add_failed", "header_failed"} => ~logsExists
        /\ IF outcome = "exception" \/ outcome = "add_failed"
           THEN LogExit(1) /\ UNCHANGED logsVars
           ELSE IF logsExists
           THEN lg_pc' = "append" /\ UNCHANGED <<lg_exit, logsVars>>
           ELSE /\ logsExists' = TRUE
                /\ IF outcome = "ok"
                   THEN /\ logsRows' = Append(logsRows, LogHeaders)
                        /\ lg_pc' = "append" /\ UNCHANGED lg_exit
                   ELSE LogExit(1) /\ UNCHANGED logsRows
    /\ UNCHANGED <<lg_env, http_response, insights, now, data_row>>

\* log_to_google_sheet (105-112): True iff worksheet.append_row did not raise
AppendSucceeds(outcome) == outcome = "ok"

\* lines 225-226
LogToGoogleSheet ==
    /\ lg_pc = "append"
    /\ lg_gsCalls' = lg_gsCalls + 1
    /\ \E outcome \in {"ok", "exception"} :
        /\ logsRows' = IF AppendSucceeds(outcome) THEN Append(logsRows, data_row)
                       ELSE logsRows
        /\ LogExit(0)
    /\ UNCHANGED <<logsExists, lg_env, http_response, insights, now, data_row>>

\* the Insight Logger touches neither the ready worksheet nor the Publisher
LoggerFrame == UNCHANGED <<sheetVars, platformVars, procVars>>

NextLog ==
    \/ LogCheckConfig /\ LoggerFrame
    \/ FetchInsights /\ LoggerFrame
    \/ PrepareRow /\ LoggerFrame
    \/ LogGetClient /\ LoggerFrame
    \/ LogOpenSheet /\ LoggerFrame
    \/ GetOrCreateWorksheet /\ LoggerFrame
    \/ LogToGoogleSheet /\ LoggerFrame

\* one Insight Logger invocation
SpecLog == InitLog /\ [][NextLog]_vars

\* either program, invoked once
InitPrograms == Init \/ InitLog
NextPrograms == Next \/ NextLog
SpecPrograms == InitPrograms /\ [][NextPrograms]_vars

\* ======================================================= properties
\* helpers of the properties
NumBlocks(p) == Len(post_blocks_arg[p])
AllCallsSucceeded(p) ==
    /\ \A k \in 1..Len(createCalls[p]) : Truthy(createCalls[p][k].result)
    /\ \A k \in 1..Len(publishCalls[p]) : Truthy(publishCalls[p][k].result)
SomeCallFailed(p) == ~AllCallsSucceeded(p)
LoopLeft(p) == pc[p] \in {"complete", "exited"}
\* the posts invocation p published, in platform order
RECURSIVE PostsOf(_, _)
PostsOf(p, posts) ==
    IF posts = <<>> THEN <<>>
    ELSE IF Head(posts).owner = p THEN <<Head(posts)>> \o PostsOf(p, Tail(posts))
         ELSE PostsOf(p, Tail(posts))
PublishedBy(p) == PostsOf(p, published)
\* the sheet column a published text came from
ColumnOf(p, text) ==
    CHOOSE c \in 1..NumBlockColumns :
        text = SubSeq(post_data[p].Block[c], 2, Len(post_data[p].Block[c]) - 1)

\* C1: in a run over N >= 1 non-empty blocks whose create and publish calls
\* all succeed, once the loop is left there were exactly N create calls and
\* N publish calls; every create call carries as reply target the published
\* identifier returned for the previous block, and none for block 0.
C1_ChainCalls ==
    \A p \in Procs :
        /\ \A k \in 1..Len(createCalls[p]) :
              createCalls[p][k].reply_to_id =
                 (IF k = 1 THEN None ELSE publishCalls[p][k - 1].result)
        /\ (LoopLeft(p) /\ NumBlocks(p) >= 1 /\ AllCallsSucceeded(p)) =>
              /\ Len(createCalls[p]) = NumBlocks(p)
              /\ Len(publishCalls[p]) = NumBlocks(p)
              /\ \A k \in 1..NumBlocks(p) :
                    /\ createCalls[p][k].text = post_blocks_arg[p][k]
                    /\ publishCalls[p][k].creation_id = createCalls[p][k].result

C1_Witness ==
    \E p \in Procs :
        /\ pc[p] = "exited" /\ exit_code[p] = 0
        /\ NumBlocks(p) = NumBlockColumns
        /\ Len(createCalls[p]) = NumBlockColumns
        /\ createCalls[p][NumBlockColumns].reply_to_id =
              publishCalls[p][NumBlockColumns - 1].result

\* C2: on a successful run the posts are published in the order of the
\* sheet's block columns, and the root identifier -- the variable, the one
\* written to the sheet and the one in the summary -- is the published
\* identifier of block 0; no later block overwrites it.
C2_OrderAndRoot ==
    \A p \in Procs :
        /\ Truthy(root_post_id[p]) =>
              /\ publishCalls[p] # <<>>
              /\ root_post_id[p] = publishCalls[p][1].result
        /\ (pc[p] = "exited" /\ exit_code[p] = 0) =>
              /\ Len(PublishedBy(p)) = NumBlocks(p)
              /\ \A k \in 1..NumBlocks(p) :
                    /\ PublishedBy(p)[k].text = post_blocks_arg[p][k]
                    /\ PublishedBy(p)[k].id = publishCalls[p][k].result
              /\ \A k, l \in 1..NumBlocks(p) :
                    k < l => ColumnOf(p, PublishedBy(p)[k].text)
                               < ColumnOf(p, PublishedBy(p)[l].text)
              /\ stdout[p].threads_post_id = PublishedBy(p)[1].id
              /\ statusWrites[p][Len(statusWrites[p])].threads_post_id
                    = PublishedBy(p)[1].id

C2_Witness ==
    \E p \in Procs :
        /\ pc[p] = "exited" /\ exit_code[p] = 0
        /\ NumBlocks(p) = 2
        /\ Strip(post_data[p].Block[1]) = <<>>
        /\ Strip(post_data[p].Block[3]) = <<>>
        /\ stdout[p].threads_post_id = publishCalls[p][1].result
        /\ stdout[p].threads_post_id # publishCalls[p][2].result

\* C3: if the create or the publish call of block k fails, no create or
\* publish call is made for a later block, and when the process has exited
\* the row's status is "Error".
C3_FailureStopsAndMarksError ==
    \A p \in Procs :
        (pc[p] = "exited" /\ SomeCallFailed(p)) =>
            /\ \A k \in 1..(Len(createCalls[p]) - 1) : Truthy(createCalls[p][k].result)
            /\ \A k \in 1..(Len(publishCalls[p]) - 1) : Truthy(publishCalls[p][k].result)
            /\ Len(createCalls[p]) - Len(publishCalls[p]) \in {0, 1}
            /\ (Len(createCalls[p]) = Len(publishCalls[p]) =>
                    Truthy(createCalls[p][Len(createCalls[p])].result))
            /\ sheetRow.Status = "Error"

\* C4: over any sequence of Publisher invocations the row's status only
\* moves forward along Ready -> Posting -> {Posted | Error}; once it is
\* Posted or Error no invocation changes it or publishes the row again.
StatusForward(a, b) ==
    \/ a = b
    \/ <<a, b>> \in {<<"Ready", "Posting">>, <<"Posting", "Posted">>,
                     <<"Posting", "Error">>}
C4_StatusOnlyForward ==
    [][ /\ StatusForward(sheetRow.Status, sheetRow'.Status)
        /\ (sheetRow.Status \in {"Posted", "Error"} => published' = published) ]_vars

\* ---- Insight Logger properties
\* what a sample reports: its "value", zero if it has none
Reported(sample) == IF sample.has_value THEN sample.value ELSE 0
RECURSIVE Total(_)
Total(values) ==
    IF Len(values) = 0 THEN 0
    ELSE Total(SubSeq(values, 1, Len(values) - 1)) + Reported(values[Len(values)])
HasSeries(m) == m.has_values /\ Len(m.values) >= 1
HasAggregate(m) == m.has_total_value
LastSample(m) == Reported(m.values[Len(m.values)])
Aggregate(m) == Reported(m.total_value)
EntriesNamed(data, name) == {k \in 1..Len(data) : data[k].name = name}
FetchReturned == lg_pc = "fetched" /\ ~insights.none
Yielded(name) == DictGet(insights.dict, name, 0)

\* C5 as stated: for every metric name (reported once in the response) the
\* fetch yields the last sample of a time series, the value of a single
\* aggregate, and zero when neither form is present -- whatever the name
\* and whatever the combination of forms.
C5_UniformExtraction ==
    FetchReturned =>
        \A name \in MetricNames :
            LET ks == EntriesNamed(http_response.data, name) IN
            /\ ks = {} => Yielded(name) = 0
            /\ Cardinality(ks) = 1 =>
                  LET m == http_response.data[CHOOSE k \in ks : TRUE] IN
                  /\ (HasSeries(m) /\ ~HasAggregate(m)) => Yielded(name) = LastSample(m)
                  /\ (HasAggregate(m) /\ ~HasSeries(m)) => Yielded(name) = Aggregate(m)
                  /\ (HasSeries(m) /\ HasAggregate(m)) =>
                        Yielded(name) \in {LastSample(m), Aggregate(m)}
                  /\ (~HasSeries(m) /\ ~HasAggregate(m)) => Yielded(name) = 0

\* C5 amended: views yields the last sample of a non-empty time series and
\* nothing otherwise (an aggregate is ignored); likes and replies yield the
\* aggregate when there is one, otherwise the sum of the samples of a
\* non-empty time series, otherwise nothing.
C5_PerMetricExtraction ==
    FetchReturned =>
        \A name \in MetricNames :
            LET ks == EntriesNamed(http_response.data, name)
                d == insights.dict
            IN
            /\ ks = {} => name \notin DOMAIN d
            /\ Cardinality(ks) = 1 =>
                  LET m == http_response.data[CHOOSE k \in ks : TRUE] IN
                  IF name = "views"
                  THEN IF HasSeries(m)
                       THEN name \in DOMAIN d /\ d[name] = LastSample(m)
                       ELSE name \notin DOMAIN d
                  ELSE IF HasAggregate(m)
                       THEN name \in DOMAIN d /\ d[name] = Aggregate(m)
                       ELSE IF HasSeries(m)
                       THEN name \in DOMAIN d /\ d[name] = Total(m.values)
                       ELSE name \notin DOMAIN d

C5_Witness ==
    /\ FetchReturned
    /\ \E k \in 1..Len(http_response.data) :
        LET m == http_response.data[k] IN
        /\ m.name = "views" /\ Len(m.values) = 2 /\ m.has_total_value
        /\ Reported(m.values[1]) # Reported(m.values[2])
        /\ Cardinality(EntriesNamed(http_response.data, "views")) = 1
        /\ insights.dict["views"] = Reported(m.values[2])
    /\ \E k \in 1..Len(http_response.data) :
        LET m == http_response.data[k] IN
        /\ m.name = "likes" /\ Len(m.values) = 2 /\ ~m.has_total_value
        /\ insights.dict["likes"] = 2

\* a views time series of two samples, a likes aggregate, no replies entry
ExampleResponse(resp) ==
    /\ resp.kind = "data"
    /\ Len(resp.data) = 2
    /\ resp.data[1].name = "views"
    /\ Len(resp.data[1].values) = 2 /\ ~resp.data[1].has_total_value
    /\ resp.data[2].name = "likes"
    /\ resp.data[2].has_total_value /\ ~resp.data[2].has_values

\* C6 as stated: the result of a successful fetch contains all three metric
\* names; for the example response it is
\* {views: last sample, likes: aggregate, replies: 0}.
C6_ResultHasAllMetrics ==
    FetchReturned =>
        /\ DOMAIN insights.dict = MetricNames
        /\ ExampleResponse(http_response) =>
              /\ insights.dict["views"] = LastSample(http_response.data[1])
              /\ insights.dict["likes"] = Aggregate(http_response.data[2])
              /\ insights.dict["replies"] = 0

\* C6 amended: the result of a successful fetch maps a subset of the three
\* metric names -- the metrics that were parsed -- to integers; for the
\* example response it is {views: last sample, likes: aggregate} without a
\* replies key, and the zero for replies appears in the row built from it.
C6_ResultHasParsedMetrics ==
    /\ FetchReturned =>
        /\ DOMAIN insights.dict \subseteq MetricNames
        /\ \A n \in DOMAIN insights.dict : insights.dict[n] \in Nat
        /\ ExampleResponse(http_response) =>
              /\ DOMAIN insights.dict = {"views", "likes"}
              /\ insights.dict["views"] = LastSample(http_response.data[1])
              /\ insights.dict["likes"] = Aggregate(http_response.data[2])
    /\ data_row # <<>> =>
        \A n \in MetricNames :
            LET col == CASE n = "views" -> 4 [] n = "likes" -> 5 [] n = "replies" -> 6 IN
            data_row[col] = Num(IF n \in DOMAIN insights.dict THEN insights.dict[n] ELSE 0)

C6_Witness ==
    /\ FetchReturned
    /\ ExampleResponse(http_response)
    /\ Reported(http_response.data[1].values[1]) = 0
    /\ insights.dict["views"] = 1
    /\ insights.dict["likes"] = 1
    /\ "replies" \notin DOMAIN insights.dict

\* the row of this invocation is the last row of the logs sheet
RowAppended == logsRows # <<>> /\ logsRows[Len(logsRows)] = data_row
FetchAttempted == LogConfigOk(lg_env) /\ lg_pc \notin {"config", "fetch"}
FetchUsable == ~insights.none /\ DOMAIN insights.dict # {}

\* C7: the Insight Logger exits 0 only if the fetch succeeded and the row
\* was appended to the logs sheet; every failure, a failed append included,
\* gives exit code 1.
C7_ExitZeroMeansLogged ==
    lg_pc = "exited" =>
        /\ lg_exit \in {0, 1}
        /\ lg_exit = 0 <=> (FetchAttempted /\ FetchUsable /\ RowAppended)

\* C8: when the fetch fails or returns an empty or error response, the
\* Insight Logger makes no spreadsheet call, appends no row and exits 1.
C8_NoLogWithoutInsights ==
    /\ (lg_pc = "fetched" /\
          (http_response.kind # "data" \/ http_response.data = <<>>)) => ~FetchUsable
    /\ (FetchAttempted /\ ~FetchUsable) =>
          /\ lg_pc \in {"fetched", "exited"}
          /\ lg_gsCalls = 0
          /\ logsRows = (IF logsExists THEN <<LogHeaders>> ELSE <<>>)
          /\ data_row = <<>>
          /\ lg_pc = "exited" => lg_exit = 1

C8_Witness ==
    /\ lg_pc = "exited" /\ lg_exit = 1
    /\ FetchAttempted
    /\ ~insights.none /\ DOMAIN insights.dict = {}
    /\ logsExists /\ logsRows = <<LogHeaders>>

\* ---- Publisher exit
\* C9: the Publisher exits 0 exactly when every block of the chain was
\* created and published; the summary (root identifier, account name, full
\* text) is on stdout exactly then; every other exit has code 1 and no
\* summary.
AllBlocksPublished(p) ==
    /\ NumBlocks(p) >= 1
    /\ Len(PublishedBy(p)) = NumBlocks(p)
    /\ \A k \in 1..NumBlocks(p) : PublishedBy(p)[k].text = post_blocks_arg[p][k]
C9_ExitCodeAndSummary ==
    \A p \in Procs :
        /\ pc[p] # "exited" => (exit_code[p] = -1 /\ stdout[p] = NoSummary)
        /\ pc[p] = "exited" =>
              /\ exit_code[p] \in {0, 1}
              /\ exit_code[p] = 0 <=> AllBlocksPublished(p)
              /\ exit_code[p] = 0 <=> stdout[p] # NoSummary
              /\ exit_code[p] = 0 =>
                    /\ ConfigOk(env[p])
                    /\ stdout[p].threads_post_id = PublishedBy(p)[1].id
                    /\ stdout[p].account_name = Account
                    /\ Len(stdout[p].full_post_content) = 3 * NumBlocks(p) - 2
                    /\ \A k \in 1..NumBlocks(p) :
                          stdout[p].full_post_content[3 * k - 2] = post_blocks_arg[p][k][1]

C9_Witness ==
    \E p \in Procs :
        /\ pc[p] = "exited" /\ exit_code[p] = 0
        /\ NumBlocks(p) = 3
        /\ stdout[p].full_post_content[3] = "\n"
        /\ stdout[p].threads_post_id = PublishedBy(p)[1].id

\* C10: whenever the Publisher has exited with code 0 the row's status is
\* "Posted" and its Threads_Post_ID cell is the published identifier of
\* block 0.
C10_SuccessIsRecorded ==
    \A p \in Procs :
        (pc[p] = "exited" /\ exit_code[p] = 0) =>
            /\ sheetRow.Status = "Posted"
            /\ sheetRow.Threads_Post_ID = publishCalls[p][1].result

\* ---- block extraction
\* a cell with nothing but whitespace in it
Blank(cell) == \A j \in 1..Len(cell) : cell[j] \in Whitespace
RowRead(p) == post_data[p].Post_ID = RowId
NonBlankColumns(p) == {c \in 1..NumBlockColumns : ~Blank(post_data[p].Block[c])}
\* the k-th non-blank column of the row read by p
KthColumn(p, k) ==
    CHOOSE c \in NonBlankColumns(p) :
        Cardinality({b \in NonBlankColumns(p) : b < c}) = k - 1
NonWhitespace(ch) == ch \notin Whitespace
BlocksFiltered(p) ==
    /\ \A k \in 1..Len(createCalls[p]) : ~Blank(createCalls[p][k].text)
    /\ RowRead(p) =>
          /\ NumBlocks(p) = Cardinality(NonBlankColumns(p))
          /\ \A k \in 1..NumBlocks(p) :
                post_blocks_arg[p][k] =
                    SelectSeq(post_data[p].Block[KthColumn(p, k)], NonWhitespace)
          /\ \A k \in 1..Len(createCalls[p]) :
                createCalls[p][k].text = post_blocks_arg[p][k]

\* C11 as stated: blank blocks are left out of the chain and the others keep
\* their order; a row without a non-empty block makes the Publisher exit 1
\* before any remote call is made.
C11_NoRemoteCallWithoutBlocks ==
    \A p \in Procs :
        /\ BlocksFiltered(p)
        /\ (pc[p] = "exited" /\ RowRead(p) /\ NonBlankColumns(p) = {}) =>
              /\ exit_code[p] = 1
              /\ gsCalls[p] = 0
              /\ createCalls[p] = <<>> /\ publishCalls[p] = <<>>

\* C11 amended: blank blocks are left out of the chain and the others keep
\* their order; a row without a non-empty block makes the Publisher exit 1
\* before any platform call is made -- its remote calls are the
\* spreadsheet calls that read the row and one status write, "Error".
C11_NoPlatformCallWithoutBlocks ==
    \A p \in Procs :
        /\ BlocksFiltered(p)
        /\ (RowRead(p) /\ NonBlankColumns(p) = {}) =>
              /\ pc[p] \in {"no_blocks", "exited"}
              /\ createCalls[p] = <<>> /\ publishCalls[p] = <<>>
              /\ containers = <<>> /\ published = <<>>
              /\ pc[p] = "exited" =>
                    /\ exit_code[p] = 1
                    /\ Len(statusWrites[p]) = 1
                    /\ statusWrites[p][1].status = "Error"
                    /\ gsCalls[p] = 5

C11_Witness ==
    \E p \in Procs :
        /\ pc[p] = "exited" /\ exit_code[p] = 1
        /\ RowRead(p) /\ NonBlankColumns(p) = {}
        /\ post_data[p].Block[1] = <<" ">>
        /\ sheetRow.Status = "Error"

\* ---- one container at a time
OpenContainersOf(p) ==
    {k \in 1..Len(containers) : containers[k].owner = p /\ containers[k].open}

\* C12: a run has at most one container that is created and not yet
\* published, and the create call for a block is made only after the publish
\* call for the block before it has returned a post id.
C12_OneOpenContainer ==
    \A p \in Procs :
        /\ Cardinality(OpenContainersOf(p)) <= 1
        /\ \A k \in 2..Len(createCalls[p]) :
              /\ Len(publishCalls[p]) >= k - 1
              /\ Truthy(publishCalls[p][k - 1].result)
        /\ Len(publishCalls[p]) <= Len(createCalls[p])

C12_Witness ==
    \E p \in Procs :
        /\ Len(createCalls[p]) = 2 /\ Len(publishCalls[p]) = 1
        /\ Cardinality(OpenContainersOf(p)) = 1
        /\ pc[p] = "sleep"

\* ---- configuration errors
PublisherConfigMissing(e) ==
    \/ ~e.creds_path \/ ~e.sheet_url
    \/ ~e.token \/ ~e.user_id
    \/ Len(e.argv) < 3
LoggerConfigMissing(e) ==
    \/ ~e.creds_path \/ ~e.sheet_url
    \/ ~e.token
    \/ Len(e.argv) < 4
PublisherConfigChecked(p) == pc[p] \notin {"idle", "config"}
LoggerConfigChecked == lg_pc \notin {"off", "config"}

\* C13: when the credential path, the spreadsheet URL, the access token, the
\* user identifier (Publisher) or an argument is missing, the program has
\* exited with code 1 as soon as its configuration was checked, and it has
\* made no call to the spreadsheet service and none to the platform.
C13_ConfigErrorExitsBeforeRemoteCalls ==
    /\ \A p \in Procs :
          (PublisherConfigChecked(p) /\ PublisherConfigMissing(env[p])) =>
              /\ pc[p] = "exited" /\ exit_code[p] = 1
              /\ gsCalls[p] = 0 /\ statusWrites[p] = <<>>
              /\ createCalls[p] = <<>> /\ publishCalls[p] = <<>>
              /\ containers = <<>> /\ published = <<>>
    /\ (LoggerConfigChecked /\ LoggerConfigMissing(lg_env)) =>
          /\ lg_pc = "exited" /\ lg_exit = 1
          /\ lg_gsCalls = 0
          /\ http_response = NoResponse /\ insights = NoInsights
          /\ data_row = <<>>
          /\ logsRows = IF logsExists THEN <<LogHeaders>> ELSE <<>>

C13_Witness ==
    /\ lg_pc = "exited" /\ lg_exit = 1
    /\ ~lg_env.token /\ Len(lg_env.argv) = 4
    /\ lg_gsCalls = 0

C13_PublisherWitness ==
    \E p \in Procs :
        /\ pc[p] = "exited" /\ exit_code[p] = 1
        /\ ~env[p].user_id /\ env[p].token /\ Len(env[p].argv) = 3
        /\ gsCalls[p] = 0

\* ---- no retry, no rollback
SuccessfulPublishes(p) ==
    {k \in 1..Len(publishCalls[p]) : Truthy(publishCalls[p][k].result)}

\* C14: the k-th create call of a run is for block k and the k-th publish
\* call is for the container that create call returned, so no block gets a
\* second create or publish call; and the posts of the run on the platform
\* are exactly the blocks whose publish call succeeded, also after a later
\* block failed.
C14_NoRetryNoRollback ==
    \A p \in Procs :
        /\ Len(createCalls[p]) <= NumBlocks(p)
        /\ Len(publishCalls[p]) <= Len(createCalls[p])
        /\ \A k \in 1..Len(createCalls[p]) :
              createCalls[p][k].text = post_blocks_arg[p][k]
        /\ \A k \in 1..Len(publishCalls[p]) :
              /\ Truthy(createCalls[p][k].result)
              /\ publishCalls[p][k].creation_id = createCalls[p][k].result
        /\ Len(PublishedBy(p)) = Cardinality(SuccessfulPublishes(p))
        /\ \A k \in SuccessfulPublishes(p) :
              /\ k <= Len(PublishedBy(p))
              /\ PublishedBy(p)[k].id = publishCalls[p][k].result
              /\ PublishedBy(p)[k].text = post_blocks_arg[p][k]

C14_Witness ==
    \E p \in Procs :
        /\ pc[p] = "exited" /\ exit_code[p] = 1
        /\ Len(createCalls[p]) = 3 /\ Len(publishCalls[p]) = 3
        /\ SuccessfulPublishes(p) = {1, 2}
        /\ Len(PublishedBy(p)) = 2

\* ---- status "Posting" before the chain
FirstCreateDue(p) == pc[p] = "create" /\ createCalls[p] = <<>>

\* C15: when the first create call of a run is issued, the status write
\* "Posting" has been made, no platform call came before it, and the row's
\* Status is "Posting".
C15_PostingBeforeFirstCreate ==
    \A p \in Procs :
        /\ FirstCreateDue(p) =>
              /\ statusWrites[p] # <<>>
              /\ statusWrites[p][1].status = "Posting"
              /\ sheetRow.Status = "Posting"
        /\ statusWrites[p] = <<>> =>
              createCalls[p] = <<>> /\ publishCalls[p] = <<>>

\* the part of C15 that holds: the write is attempted before every platform
\* call
C15_PostingAttemptedFirst ==
    \A p \in Procs :
        /\ FirstCreateDue(p) =>
              /\ Len(statusWrites[p]) = 1
              /\ statusWrites[p][1].status = "Posting"
        /\ statusWrites[p] = <<>> =>
              createCalls[p] = <<>> /\ publishCalls[p] = <<>>

\* ---- waits between create and publish
SuccessfulCreates(p) ==
    {k \in 1..Len(createCalls[p]) : Truthy(createCalls[p][k].result)}
RECURSIVE SumSeq(_)
SumSeq(q) == IF q = <<>> THEN 0 ELSE Head(q) + SumSeq(Tail(q))

\* C16: a run waits once per successfully created container, after the
\* create call and before the publish call of that block: 30 for block 0,
\* 10 for every later block, nothing after a failed create; a chain of N
\* blocks that succeeds has waited 30 + 10*(N-1) in total.
C16_DelaysBetweenCreateAndPublish ==
    \A p \in Procs :
        /\ Len(slept[p]) =
              Cardinality(SuccessfulCreates(p)) - (IF pc[p] = "sleep" THEN 1 ELSE 0)
        /\ Len(publishCalls[p]) =
              Len(slept[p]) - (IF pc[p] = "publish" THEN 1 ELSE 0)
        /\ \A k \in 1..Len(slept[p]) : slept[p][k] = IF k = 1 THEN 30 ELSE 10
        /\ (pc[p] = "exited" /\ exit_code[p] = 0) =>
              SumSeq(slept[p]) = 30 + 10 * (NumBlocks(p) - 1)

C16_Witness ==
    \E p \in Procs :
        /\ pc[p] = "exited" /\ exit_code[p] = 0
        /\ NumBlocks(p) = 3
        /\ slept[p] = <<30, 10, 10>>

C16_FailedCreateWitness ==
    \E p \in Procs :
        /\ pc[p] = "exited" /\ exit_code[p] = 1
        /\ Len(createCalls[p]) = 2 /\ slept[p] = <<30>>

\* ---- termination in the middle of a chain
StuckPosting(p) ==
    /\ exit_code[p] = Killed
    /\ sheetRow.Status = "Posting"
    /\ Len(PublishedBy(p)) >= 1

\* C17: once a run was terminated with the row's Status "Posting" and at
\* least one of its blocks published, every later step leaves that so: the
\* Status stays "Posting" and the blocks stay published.
C17_TerminatedRunStaysPosting ==
    [][\A p \in Procs : StuckPosting(p) => StuckPosting(p)']_vars

\* a run terminated between two blocks of its chain
C17_Witness ==
    \E p \in Procs :
        /\ pc[p] = "killed" /\ StuckPosting(p)
        /\ Len(PublishedBy(p)) < NumBlocks(p)
        /\ statusWrites[p] = <<[status |-> "Posting", threads_post_id |-> None,
                               returned |-> TRUE]>>

\* ---- the Log Entry row
MetricOrZero(name) ==
    IF name \in DOMAIN insights.dict THEN insights.dict[name] ELSE 0
\* identifier, account, content, views, likes, replies, date, time
ExpectedLogEntry ==
    << Str(lg_env.argv[3]), Str(lg_env.argv[2]), Str(lg_env.argv[4]),
       Num(MetricOrZero("views")), Num(MetricOrZero("likes")),
       Num(MetricOrZero("replies")),
       Str(now.date_part), Str(now.time_part) >>
LoggerSucceeded == lg_pc = "exited" /\ lg_exit = 0

\* C18: an Insight Logger invocation that ends with success has appended
\* exactly one row -- identifier, account, content, views, likes, replies,
\* date, time, with zero for a metric that was not returned and date and time
\* of one timestamp -- and the logs sheet holds the header row once, before
\* that row.
C18_SuccessAppendsOneLogEntry ==
    LoggerSucceeded =>
        /\ now \in Timestamps
        /\ logsRows = <<LogHeaders, ExpectedLogEntry>>

\* the part of C18 that holds: whenever the append itself went through, the
\* sheet is the header row followed by that one row
C18_LogEntryWhenAppended ==
    LoggerSucceeded =>
        /\ now \in Timestamps
        /\ \/ logsRows = <<LogHeaders, ExpectedLogEntry>>
           \/ logsRows = <<LogHeaders>>

\* ---- status "Posted"
PostedWrites(p) ==
    {k \in 1..Len(statusWrites[p]) : statusWrites[p][k].status = "Posted"}

\* C19: a run that has written status "Posted" has made one create call and
\* one publish call for each of its N blocks, all of them successful, and
\* its N blocks are on the platform; a row whose Status is "Posted" was
\* written by such a run.
C19_PostedOnlyAfterAllPublished ==
    /\ \A p \in Procs :
          PostedWrites(p) # {} =>
              /\ NumBlocks(p) >= 1
              /\ Len(createCalls[p]) = NumBlocks(p)
              /\ Len(publishCalls[p]) = NumBlocks(p)
              /\ Cardinality(SuccessfulPublishes(p)) = NumBlocks(p)
              /\ \A k \in 1..NumBlocks(p) :
                    /\ Truthy(createCalls[p][k].result)
                    /\ createCalls[p][k].text = post_blocks_arg[p][k]
                    /\ publishCalls[p][k].creation_id = createCalls[p][k].result
              /\ Len(PublishedBy(p)) = NumBlocks(p)
    /\ sheetRow.Status = "Posted" => \E p \in Procs : PostedWrites(p) # {}

C19_Witness ==
    \E p \in Procs :
        /\ PostedWrites(p) = {2}
        /\ statusWrites[p][2].returned
        /\ sheetRow.Status = "Posted"
        /\ NumBlocks(p) = 2 /\ Len(PublishedBy(p)) = 2

\* ---- one chain per row
\* the chains on the platform: the published posts that reply to nothing
ChainRoots == {k \in 1..Len(published) : published[k].reply_to_id = None}

\* C20: whatever the sequence or interleaving of Publisher invocations for
\* the row, the platform holds at most one reply chain made from it.
C20_PublishedAtMostOnce ==
    /\ Cardinality(ChainRoots) <= 1
    /\ \A p, q \in Procs :
          (PublishedBy(p) # <<>> /\ PublishedBy(q) # <<>>) => p = q

\* ---- termination and the number of calls
Started(p) == pc[p] \notin {"idle"}
ExitedZeroOrOne(p) == pc[p] = "exited" /\ exit_code[p] \in {0, 1}
CallBounds(p) ==
    /\ Len(createCalls[p]) <= NumBlocks(p)
    /\ Len(publishCalls[p]) <= NumBlocks(p)
    /\ Len(statusWrites[p]) <= 2

\* C21: when every remote call returns, a started Publisher invocation
\* eventually has exited with code 0 or 1, and at no time has it made more
\* than N create calls, N publish calls or two status writes.
C21_TerminatesWithinBounds ==
    /\ [](\A p \in Procs : CallBounds(p))
    /\ \A p \in Procs : Started(p) ~> ExitedZeroOrOne(p)

\* a run that used the whole budget: four blocks, two status writes
C21_Witness ==
    \E p \in Procs :
        /\ ExitedZeroOrOne(p) /\ exit_code[p] = 0
        /\ NumBlocks(p) = NumBlockColumns
        /\ Len(createCalls[p]) = NumBlockColumns
        /\ Len(publishCalls[p]) = NumBlockColumns
        /\ Len(statusWrites[p]) = 2

\* a run that fails in its last block has used the same budget
C21_FailureWitness ==
    \E p \in Procs :
        /\ ExitedZeroOrOne(p) /\ exit_code[p] = 1
        /\ NumBlocks(p) = 2
        /\ Len(createCalls[p]) = 2 /\ Len(publishCalls[p]) = 2
        /\ Len(statusWrites[p]) = 2 /\ statusWrites[p][2].status = "Error"

====
